---- MODULE Spec2Model ----
(***************************************************************************)
(* Skill-flow orchestrator: the hybrid scorer of match_skills.py and the   *)
(* run lifecycle of orchestrate.py.                                        *)
(*                                                                         *)
(* Text is a sequence of one-character strings, so that lower-casing, the  *)
(* token regex, str.split and substring containment are computed.  Scores  *)
(* are exact rationals [n, d] in lowest terms (the code uses floats).      *)
(* Python dicts are records whose DOMAIN is the set of keys present.       *)
(***************************************************************************)
EXTENDS Integers, Sequences, FiniteSets, TLC

VARIABLES
    catalog,       \* the "skills" list of skill_index.json
    m_task,        \* match_skills: argument task
    m_use_ai,      \* match_skills: argument use_ai
    m_ai,          \* what semantic_match_gemini returned to this call
    m_result,      \* match_skills: returned list
    m_index,       \* match_skills: local skills, the records json.load built
    m_sorted,      \* match_skills: local skills_sorted, the same records sorted
    m_pc,          \* "call" before match_skills has run, "sorted" after its
                   \* step 1, "done" after it returned, "raised" after it raised
    m_ext,         \* what semantic_match_gemini met outside the program (None
                   \* when it was not called)
    now,           \* wall clock, in seconds
    runs,          \* number of orchestrator invocations started so far
    mode,          \* Orchestrator.mode
    task,          \* run(task)
    context,       \* Orchestrator.context (None or ExecutionContext)
    dag,           \* Orchestrator.dag
    skills,        \* local "skills" of run_quick / run_standard / run_deep
    node,          \* local "node" of run_quick
    idx,           \* position of the "for node in self.dag" loop
    template,      \* local "template" of run_expert
    pc,            \* position inside run()
    executed,      \* ids of the nodes execute_skill was called on, this run
    scorer_calls,  \* calls of match_skills made by this run
    ranked,        \* what match_skills returned to this run, before any slice
    saved,         \* names of the templates _save_template wrote, this run
    ctx_file,      \* sfo/context.json (None when absent)
    log_file,      \* sfo/logs/<day>.log, one entry per line
    templates      \* sfo/templates/*.json, file name -> content

mvars == <<m_task, m_use_ai, m_index, m_sorted, m_ai, m_result, m_pc, m_ext>>
ovars == <<now, runs, mode, task, context, dag, skills, node, idx, template, pc,
           executed, scorer_calls, ranked, saved, ctx_file, log_file, templates>>
vars == <<catalog, mvars, ovars>>

None == <<>>

-----------------------------------------------------------------------------
(* Bounds of the model *)

\* longest ranking the semantic ranker returns
MaxAiEntries == 2
\* keywords of the largest skill, all of which occur in the matching task
MaxKeywords == 21
\* orchestrator invocations against one storage root
MaxRuns == 2
\* seconds the clock may advance
MaxClock == 1
\* invocations in the runs of deep and expert mode alone
MaxRoundTripRuns == 3

(* Constants of the program *)

KeywordCap == 20
StandardCount == 3
DeepCount == 5
TriggerLen == 50
DescriptionLen == 100

-----------------------------------------------------------------------------
(* Exact rationals *)

RECURSIVE GCD(_, _)
GCD(a, b) == IF b = 0 THEN a ELSE GCD(b, a % b)

Rat(n, d) == LET g == GCD(n, d) IN [n |-> n \div g, d |-> d \div g]
Zero == Rat(0, 1)
One == Rat(1, 1)
RAdd(a, b) == Rat(a.n * b.d + b.n * a.d, a.d * b.d)
RMul(a, b) == Rat(a.n * b.n, a.d * b.d)
RLe(a, b) == a.n * b.d <= b.n * a.d
RLt(a, b) == a.n * b.d < b.n * a.d
RMin(a, b) == IF RLe(a, b) THEN a ELSE b

-----------------------------------------------------------------------------
(* Text *)

UpperAlpha == <<"A", "B", "C", "D", "E", "F", "G", "H", "I", "J", "K", "L", "M",
                "N", "O", "P", "Q", "R", "S", "T", "U", "V", "W", "X", "Y", "Z">>
LowerAlpha == <<"a", "b", "c", "d", "e", "f", "g", "h", "i", "j", "k", "l", "m",
                "n", "o", "p", "q", "r", "s", "t", "u", "v", "w", "x", "y", "z">>
Digits == <<"0", "1", "2", "3", "4", "5", "6", "7", "8", "9">>

Range(s) == {s[i] : i \in DOMAIN s}
Min2(a, b) == IF a <= b THEN a ELSE b

LowerLetters == Range(LowerAlpha)
UpperLetters == Range(UpperAlpha)
\* \w of the regex: the characters \b tells apart from the rest
WordChars == LowerLetters \cup UpperLetters \cup Range(Digits) \cup {"_"}
\* [a-z0-9-]
TokenChars == LowerLetters \cup Range(Digits) \cup {"-"}

IsLowerLetter(c) == c \in LowerLetters
IsWordChar(c) == c \in WordChars
IsTokenChar(c) == c \in TokenChars

\* str.lower()
LowerChar(c) ==
    IF c \in UpperLetters
    THEN LowerAlpha[CHOOSE i \in DOMAIN UpperAlpha : UpperAlpha[i] = c]
    ELSE c
Lower(s) == [i \in DOMAIN s |-> LowerChar(s[i])]

\* str.replace('-', ' ')
HyphensToSpaces(s) == [i \in DOMAIN s |-> IF s[i] = "-" THEN " " ELSE s[i]]

\* s[:n]
Take(s, n) == SubSeq(s, 1, Min2(n, Len(s)))

\* the "in" operator on two strings
Contains(s, w) ==
    \E i \in 0..(Len(s) - Len(w)) : \A k \in 1..Len(w) : s[i + k] = w[k]

\* \b between s[k] and s[k+1] (k = 0 is the start, k = Len(s) the end)
WordBoundary(s, k) ==
    LET before == k >= 1 /\ IsWordChar(s[k])
        after == k < Len(s) /\ IsWordChar(s[k + 1])
    IN before # after

\* where the greedy match of \b[a-z][a-z0-9-]{2,}\b that starts at i ends;
\* 0 when there is none
TokenEnd(s, i) ==
    IF ~(WordBoundary(s, i - 1) /\ IsLowerLetter(s[i])) THEN 0
    ELSE LET ends == {e \in (i + 2)..Len(s) :
                        /\ \A k \in (i + 1)..e : IsTokenChar(s[k])
                        /\ WordBoundary(s, e)}
         IN IF ends = {} THEN 0 ELSE CHOOSE e \in ends : \A f \in ends : f <= e

\* set(re.findall(r'\b[a-z][a-z0-9-]{2,}\b', s)), scanning from position i
RECURSIVE FindTokens(_, _)
FindTokens(s, i) ==
    IF i > Len(s) THEN {}
    ELSE LET e == TokenEnd(s, i)
         IN IF e = 0 THEN FindTokens(s, i + 1)
            ELSE {SubSeq(s, i, e)} \cup FindTokens(s, e + 1)

\* set(s.split()): the maximal runs of non-blank characters
SplitWords(s) ==
    {SubSeq(s, i, j) : <<i, j>> \in
        {p \in (DOMAIN s) \X (DOMAIN s) :
            /\ p[1] <= p[2]
            /\ \A k \in p[1]..p[2] : s[k] # " "
            /\ (p[1] = 1 \/ s[p[1] - 1] = " ")
            /\ (p[2] = Len(s) \/ s[p[2] + 1] = " ")}}

\* dict.get(key, default)
Get(d, key, default) == IF key \in DOMAIN d THEN d[key] ELSE default
\* d[key] = value
Put(d, key, value) ==
    [k \in DOMAIN d \cup {key} |-> IF k = key THEN value ELSE d[k]]

-----------------------------------------------------------------------------
(* match_skills.py *)

\* 0.4 * (name_matches / len(name_words)), added when name_matches > 0
NameScore(task_words, name_words) ==
    LET name_matches == Cardinality(task_words \cap name_words)
    IN IF name_matches > 0
       THEN RMul(Rat(2, 5), Rat(name_matches, Cardinality(name_words)))
       ELSE Zero

\* 0.35 * (keyword_matches / min(len(keywords), 20)), added when keywords
KeywordScore(task_words, keywords) ==
    LET keyword_matches == Cardinality(task_words \cap keywords)
    IN IF keywords # {}
       THEN RMul(Rat(7, 20),
                 Rat(keyword_matches, Min2(Cardinality(keywords), KeywordCap)))
       ELSE Zero

\* 0.25 * min(desc_matches / len(task_words), 1.0), added when task_words
DescScore(task_words, description) ==
    LET desc_matches == Cardinality({w \in task_words : Contains(description, w)})
    IN IF task_words # {}
       THEN RMul(Rat(1, 4), RMin(Rat(desc_matches, Cardinality(task_words)), One))
       ELSE Zero

TaskWords(t) == FindTokens(Lower(t), 1)
NameWords(skill) == SplitWords(HyphensToSpaces(Lower(Get(skill, "name", <<>>))))
Keywords(skill) == Range(Get(skill, "keywords", <<>>))
Description(skill) == Lower(Get(skill, "description", <<>>))

keyword_match_no_guard(t, skill) ==
    RMin(RAdd(RAdd(NameScore(TaskWords(t), NameWords(skill)),
                   KeywordScore(TaskWords(t), Keywords(skill))),
              DescScore(TaskWords(t), Description(skill))),
         One)
\* keyword_match giving up when either the keywords or the name are missing
keyword_match_either_guard(t, skill) ==
    IF Keywords(skill) = {} \/ Get(skill, "name", <<>>) = <<>>
    THEN Zero
    ELSE keyword_match_no_guard(t, skill)
keyword_match(t, skill) ==
    LET task_words == TaskWords(t)
        keywords == Keywords(skill)
        skill_name == HyphensToSpaces(Lower(Get(skill, "name", <<>>)))
        description == Description(skill)
    IN IF keywords = {} /\ skill_name = <<>>
       THEN Zero
       ELSE RMin(RAdd(RAdd(NameScore(task_words, SplitWords(skill_name)),
                           KeywordScore(task_words, keywords)),
                      DescScore(task_words, description)),
                 One)

\* sorted(xs, key=..., reverse=True) with keys[i] the key of xs[i]: position
\* of element i is one more than the number of elements that go before it
GoesBeforeUnstable(keys, i, j) ==
    RLt(keys[j], keys[i]) \/ (keys[i] = keys[j] /\ i > j)
GoesBefore(keys, i, j) ==
    RLt(keys[j], keys[i]) \/ (keys[i] = keys[j] /\ i < j)
SortedDesc(xs, keys) ==
    LET pos(i) == 1 + Cardinality({j \in DOMAIN xs : GoesBefore(keys, j, i)})
    IN [p \in DOMAIN xs |-> xs[CHOOSE i \in DOMAIN xs : pos(i) = p]]

\* Step 1: skill['keyword_score'] set on every record of the loaded list
Scored(t, skill_list) ==
    [i \in DOMAIN skill_list |->
        Put(skill_list[i], "keyword_score", keyword_match(t, skill_list[i]))]

\* sorted(skills, key=lambda s: s['keyword_score'], reverse=True)
SortLex(scored) ==
    SortedDesc(scored, [i \in DOMAIN scored |-> scored[i].keyword_score])

\* Step 1: keyword_score on every skill, then the sort by it
LexSorted(t, skill_list) == SortLex(Scored(t, skill_list))

\* ai_scores = {r['name']: r for r in ai_results}: a later entry replaces an
\* earlier one of the same name
AiScoresFirst(ai_results) ==
    [name \in {ai_results[i].name : i \in DOMAIN ai_results} |->
        ai_results[CHOOSE i \in DOMAIN ai_results :
            /\ ai_results[i].name = name
            /\ \A j \in DOMAIN ai_results : ai_results[j].name = name => j >= i]]
AiScores(ai_results) ==
    [name \in {ai_results[i].name : i \in DOMAIN ai_results} |->
        ai_results[CHOOSE i \in DOMAIN ai_results :
            /\ ai_results[i].name = name
            /\ \A j \in DOMAIN ai_results : ai_results[j].name = name => j <= i]]

\* the body of "for skill in skills_sorted" when ai_results is not empty
MergeAi(skill, ai_scores) ==
    IF skill.name \in DOMAIN ai_scores
    THEN LET ai_data == ai_scores[skill.name]
             ai_score == Get(ai_data, "score", Zero)
         IN Put(Put(Put(skill, "ai_score", ai_score),
                    "reason", Get(ai_data, "reason", "")),
                "final_score",
                RAdd(RMul(Rat(2, 5), skill.keyword_score), RMul(Rat(3, 5), ai_score)))
    ELSE Put(Put(skill, "ai_score", Zero),
             "final_score", RMul(skill.keyword_score, Rat(2, 5)))

\* step 2 with the lexical-only branch weighted like a skill the ranker left out
FuseDamped(skills_sorted, use_ai, ai_results) ==
    IF use_ai
    THEN IF ai_results # <<>>
         THEN [i \in DOMAIN skills_sorted |->
                 MergeAi(skills_sorted[i], AiScores(ai_results))]
         ELSE skills_sorted
    ELSE [i \in DOMAIN skills_sorted |->
            Put(skills_sorted[i], "final_score",
                RMul(skills_sorted[i].keyword_score, Rat(2, 5)))]

\* Step 2: the scores of the semantic ranker merged in
Fuse(skills_sorted, use_ai, ai_results) ==
    IF use_ai
    THEN IF ai_results # <<>>
         THEN [i \in DOMAIN skills_sorted |->
                 MergeAi(skills_sorted[i], AiScores(ai_results))]
         ELSE skills_sorted
    ELSE [i \in DOMAIN skills_sorted |->
            Put(skills_sorted[i], "final_score", skills_sorted[i].keyword_score)]

\* s.get('final_score', 0)
FinalKey(s) == Get(s, "final_score", Zero)

\* match_skills(task, use_ai) on the loaded index, ai_results being what
\* semantic_match_gemini returns
Ranked(skills_sorted, use_ai, ai_results) ==
    LET fused == Fuse(skills_sorted, use_ai, ai_results)
    IN SortedDesc(fused, [i \in DOMAIN fused |-> FinalKey(fused[i])])
match_skills(t, use_ai, skill_list, ai_results) ==
    IF skill_list = <<>> THEN <<>>
    ELSE Ranked(LexSorted(t, skill_list), use_ai, ai_results)

\* A function returns a value or raises
Return(v) == [raised |-> FALSE, value |-> v]
Raise == [raised |-> TRUE, value |-> None]

\* A JSON text is modelled by the value it denotes, with its type: an array
\* with its items, an object, null; "invalid" for a text that is not JSON.
JsonArray(items) == [type |-> "array", items |-> items]
EmptyList == JsonArray(<<>>)

\* text.strip(), re.sub(r'^```json\s*', '', text), re.sub(r'\s*```$', '', text):
\* a text in a ```json fence is freed of it, a text in a bare ``` fence
\* keeps the opening fence, which is not JSON
StripFence(fence, payload) ==
    IF fence = "plain" THEN [type |-> "invalid"] ELSE payload

\* json.loads(text)
json_loads(payload) ==
    IF payload.type = "invalid" THEN Raise ELSE Return(payload)

\* semantic_match_gemini(task, skills) in the environment env: the library
\* may be missing, the key unset, genai.Client(...) or generate_content(...)
\* may raise, and the response text is whatever the service sent. Only the
\* call and the parsing stand inside the try.
semantic_match_gemini(env, skills_sorted) ==
    IF env.kind \in {"no_library", "no_key"} THEN Return(EmptyList)
    ELSE IF env.kind = "client_error" THEN Raise
    ELSE IF \E i \in 1..Min2(Len(skills_sorted), KeywordCap) :
                {"name", "description"} \ DOMAIN skills_sorted[i] # {}
         THEN Raise
    ELSE IF env.kind = "call_error" THEN Return(EmptyList)
    ELSE LET parsed == json_loads(StripFence(env.fence, env.payload))
         IN IF parsed.raised THEN Return(EmptyList) ELSE parsed

\* "if ai_results:"
Truthy(json) == json.type = "object" \/ (json.type = "array" /\ json.items # <<>>)

\* ai_scores = {r['name']: r for r in ai_results} and the loop after it raise
\* when ai_results is not a list, when an item has no name, when a skill has
\* none
MergeRaises(json, skills_sorted) ==
    /\ Truthy(json)
    /\ \/ json.type # "array"
       \/ \E j \in DOMAIN json.items : "name" \notin DOMAIN json.items[j]
       \/ \E i \in DOMAIN skills_sorted : "name" \notin DOMAIN skills_sorted[i]

-----------------------------------------------------------------------------
(* Inputs: task texts, skill records, rankings *)

\* "build and deploy a react app"
TaskReact == <<"b", "u", "i", "l", "d", " ", "a", "n", "d", " ", "d", "e", "p", "l", "o", "y", " ", "a", " ", "r", "e", "a", "c", "t", " ", "a", "p", "p">>
\* "Deploy a React app"
TaskUpper == <<"D", "e", "p", "l", "o", "y", " ", "a", " ", "R", "e", "a", "c", "t", " ", "a", "p", "p">>
\* "test api"
TaskApi == <<"t", "e", "s", "t", " ", "a", "p", "i">>
\* "build and deploy a react app then test the api-v2 and ship it" (61 characters)
TaskLong == <<"b", "u", "i", "l", "d", " ", "a", "n", "d", " ", "d", "e", "p", "l", "o", "y", " ", "a", " ", "r", "e", "a", "c", "t", " ", "a", "p", "p", " ", "t", "h", "e", "n", " ", "t", "e", "s", "t", " ", "t", "h", "e", " ", "a", "p", "i", "-", "v", "2", " ", "a", "n", "d", " ", "s", "h", "i", "p", " ", "i", "t">>

\* "k01", "k02", ...
Kw(i) == <<"k", Digits[(i \div 10) + 1], Digits[(i % 10) + 1]>>
\* "k01 k02 ... k<n>"
RECURSIVE KwTask(_)
KwTask(n) == IF n = 0 THEN <<>>
             ELSE IF n = 1 THEN Kw(1)
             ELSE KwTask(n - 1) \o <<" ">> \o Kw(n)
TaskBig == KwTask(MaxKeywords)

SkillReactDeploy ==
    [name |-> <<"r", "e", "a", "c", "t", "-", "d", "e", "p", "l", "o", "y">>,
     description |-> <<"B", "u", "i", "l", "d", " ", "a", "n", "d", " ", "d", "e", "p", "l", "o", "y", " ", "R", "e", "a", "c", "t", " ", "a", "p", "p", "s">>,
     keywords |-> <<<<"r", "e", "a", "c", "t">>, <<"d", "e", "p", "l", "o", "y">>, <<"b", "u", "i", "l", "d">>>>]
SkillApiTest ==
    [name |-> <<"a", "p", "i", "-", "t", "e", "s", "t">>,
     description |-> <<"T", "e", "s", "t", " ", "t", "h", "e", " ", "A", "P", "I">>,
     keywords |-> <<<<"a", "p", "i">>, <<"t", "e", "s", "t">>, <<"R", "e", "a", "c", "t">>>>]
\* no name and no keywords, a description full of task words
SkillOrphan ==
    [name |-> <<>>,
     description |-> <<"d", "e", "p", "l", "o", "y", " ", "r", "e", "a", "c", "t", " ", "a", "p", "p">>,
     keywords |-> <<>>]
SkillShip ==
    [name |-> <<"s", "h", "i", "p">>,
     description |-> <<"s", "h", "i", "p", " ", "i", "t">>,
     keywords |-> <<>>]
SkillDocs ==
    [name |-> <<"d", "o", "c", "s">>,
     description |-> <<"W", "r", "i", "t", "e", " ", "d", "o", "c", "s">>,
     keywords |-> <<<<"d", "o", "c", "s">>>>]
\* a description that holds words of the tasks, a name and keywords that
\* hold none
SkillLint ==
    [name |-> <<"l", "i", "n", "t">>,
     description |-> <<"L", "i", "n", "t", " ", "c", "o", "d", "e", " ", "a", "n", "d", " ", "a", "p", "p", "s">>,
     keywords |-> <<<<"l", "i", "n", "t">>>>]
SkillBig ==
    [name |-> <<"b", "i", "g">>,
     description |-> <<>>,
     keywords |-> [i \in 1..MaxKeywords |-> Kw(i)]]

Tasks == {<<>>, TaskReact, TaskUpper, TaskApi, TaskLong, TaskBig}

Catalogs ==
    {<<>>,
     <<SkillReactDeploy>>,
     <<SkillShip>>,
     <<SkillOrphan, SkillBig>>,
     <<SkillDocs, SkillApiTest, SkillReactDeploy>>,
     <<SkillLint, SkillDocs, SkillShip, SkillOrphan, SkillApiTest, SkillReactDeploy>>}

\* entries a ranking may hold: {name, score, reason}, or a name alone
AiNames == {SkillReactDeploy.name, SkillDocs.name}
AiScoreValues == {Zero, Rat(1, 2), One}
AiEntries ==
    [name : AiNames, score : AiScoreValues, reason : {"relevant"}]
        \cup [name : AiNames]
SeqsUpTo(S, n) == UNION {[1..k -> S] : k \in 0..n}
AiResults == SeqsUpTo(AiEntries, MaxAiEntries)

\* what the service may send: the rankings above, a list with an item that
\* has no name, an object, null, or a text that is not JSON; bare, in a
\* ```json fence or in a ``` fence
NamelessEntry == [score |-> One, reason |-> "relevant"]
\* an entry whose score is 1.5
OverratedEntry == [name |-> SkillReactDeploy.name, score |-> Rat(3, 2), reason |-> "relevant"]
Payloads ==
    {JsonArray(r) : r \in AiResults}
        \cup {JsonArray(<<NamelessEntry>>),
              JsonArray(<<OverratedEntry>>),
              JsonArray(<<NamelessEntry, [name |-> SkillDocs.name]>>),
              [type |-> "object"], [type |-> "null"], [type |-> "invalid"]}
\* the payloads also tried inside a fence
FencedPayloads ==
    {JsonArray(<<[name |-> SkillDocs.name, score |-> One, reason |-> "relevant"]>>),
     JsonArray(<<NamelessEntry>>),
     [type |-> "invalid"]}
Environments ==
    {[kind |-> k] : k \in {"no_library", "no_key", "client_error", "call_error"}}
        \cup [kind : {"response"}, fence : {"none"}, payload : Payloads]
        \cup [kind : {"response"}, fence : {"json", "plain"}, payload : FencedPayloads]

-----------------------------------------------------------------------------
(* Orchestrator state that a matching call leaves alone *)

OrchIdle ==
    /\ now = 0
    /\ runs = 0
    /\ mode = ""
    /\ task = <<>>
    /\ context = None
    /\ dag = <<>>
    /\ skills = <<>>
    /\ node = None
    /\ idx = 0
    /\ template = None
    /\ pc = "idle"
    /\ executed = <<>>
    /\ scorer_calls = 0
    /\ ranked = <<>>
    /\ saved = <<>>
    /\ ctx_file = None
    /\ log_file = <<>>
    /\ templates = <<>>

MatchIdle ==
    /\ m_task = <<>>
    /\ m_use_ai = FALSE
    /\ m_ai = <<>>
    /\ m_result = <<>>
    /\ m_index = <<>>
    /\ m_sorted = <<>>
    /\ m_pc = "off"
    /\ m_ext = None

-----------------------------------------------------------------------------
(* A call of match_skills(task, use_ai), as match_skills.main makes it *)

InitMatch ==
    /\ catalog \in Catalogs
    /\ m_task \in Tasks
    /\ m_use_ai \in BOOLEAN
    /\ m_ai = <<>>
    /\ m_result = <<>>
    /\ m_index = <<>>
    /\ m_sorted = <<>>
    /\ m_pc = "call"
    /\ m_ext = None
    /\ OrchIdle

\* match_skills up to the end of step 1: the empty index returns [] at once;
\* the scores are assigned to the loaded records themselves, and the sorted
\* list holds these same records
KeywordStep ==
    /\ m_pc = "call"
    /\ IF catalog = <<>>
       THEN m_index' = <<>> /\ m_sorted' = <<>> /\ m_pc' = "done"
       ELSE /\ m_index' = Scored(m_task, catalog)
            /\ m_sorted' = SortLex(m_index')
            /\ m_pc' = "sorted"
    /\ UNCHANGED <<catalog, m_task, m_use_ai, m_ai, m_result, m_ext, ovars>>

\* match_skills from step 2 on; semantic_match_gemini is called only when
\* use_ai, and m_ai is the list it returned, if it returned one. Step 2
\* assigns to the records of skills_sorted, which are the loaded records; a
\* raise comes before the first of these assignments, as every record of
\* the catalogs has a name
MatchSkills ==
    /\ m_pc = "sorted"
    /\ \E env \in Environments :
        LET answer == IF m_use_ai THEN semantic_match_gemini(env, m_sorted)
                      ELSE Return(EmptyList)
            ai_results == IF ~answer.raised /\ answer.value.type = "array"
                          THEN answer.value.items ELSE <<>>
        IN /\ ~m_use_ai => env = [kind |-> "no_library"]
           /\ m_ext' = IF m_use_ai THEN env ELSE None
           /\ m_ai' = ai_results
           /\ IF answer.raised \/ MergeRaises(answer.value, m_sorted)
              THEN m_result' = <<>> /\ m_index' = m_index /\ m_pc' = "raised"
              ELSE /\ m_result' = Ranked(m_sorted, m_use_ai, ai_results)
                   /\ m_index' = Fuse(m_index, m_use_ai, ai_results)
                   /\ m_pc' = "done"
    /\ UNCHANGED <<catalog, m_task, m_use_ai, m_sorted, ovars>>

NextMatch ==
    \/ KeywordStep
    \/ MatchSkills

SpecMatch == InitMatch /\ [][NextMatch]_vars

-----------------------------------------------------------------------------
(* orchestrate.py *)

ModeArgs == {"QUICK", "STANDARD", "DEEP", "EXPERT", "deep", "TURBO"}
\* mode.upper()
UpperMode(m) == IF m = "deep" THEN "DEEP" ELSE m

\* the tasks and catalogs the orchestrator is run on
OrchTasks == {TaskUpper, TaskLong}
OrchCatalogs == {c \in Catalogs : Len(c) \in {0, 6}} \cup {<<SkillReactDeploy>>}

\* the ranker's answers tried under the orchestrator: none, or one entry that
\* puts a skill of low keyword score first
OrchAiResults ==
    {r \in AiResults :
        /\ Len(r) <= 1
        /\ \A i \in DOMAIN r :
            r[i].name = SkillDocs.name /\ Get(r[i], "score", Zero) = One}

\* f"n{i}"
NodeIdText == <<"n0", "n1", "n2", "n3", "n4", "n5", "n6">>
NodeId(i) == NodeIdText[i + 1]

\* ExecutionContext(task=task, mode=self.mode)
NewContext(t, m, at) ==
    [task |-> t, mode |-> m, started_at |-> at, current_step |-> 0,
     total_steps |-> 0, outputs |-> <<>>, errors |-> <<>>]

\* DAGNode(id=..., skill=..., depends=...)
DAGNode(id, skill, depends) ==
    [id |-> id, skill |-> skill, depends |-> depends, completed |-> FALSE,
     output |-> None]

\* compose_dag: node i depends on node i - 1, the first on nothing
compose_dag_self(skill_list) ==
    [k \in DOMAIN skill_list |->
        DAGNode(NodeId(k - 1), skill_list[k].name, <<NodeId(k - 1)>>)]
compose_dag(skill_list) ==
    [k \in DOMAIN skill_list |->
        DAGNode(NodeId(k - 1), skill_list[k].name,
                IF k > 1 THEN <<NodeId(k - 2)>> ELSE <<>>)]

\* f"Skill '{node.skill}' executed successfully"
Output(skill) == <<"executed", skill>>

\* one line of the log file, f"[{timestamp}] [{self.mode}] {message}", without
\* its timestamp
LogLine(message) == [mode |-> mode, message |-> message]

\* execute_skill, on the node and on the context
ExecutedNode(n) == [n EXCEPT !.completed = TRUE, !.output = Output(n.skill)]
\* execute_skill recording the output without counting the step
ExecutedContextUncounted(n, c) ==
    [c EXCEPT !.outputs = Put(@, n.id, Output(n.skill))]
ExecutedContext(n, c) ==
    [c EXCEPT !.outputs = Put(@, n.id, Output(n.skill)),
              !.current_step = @ + 1]

\* _find_template: a pattern of the template occurs in the task, whatever the case
TemplateMatchesCased(tpl, t) ==
    \E i \in DOMAIN Get(tpl, "trigger_patterns", <<>>) :
        Contains(t, tpl.trigger_patterns[i])
TemplateMatches(tpl, t) ==
    \E i \in DOMAIN Get(tpl, "trigger_patterns", <<>>) :
        Contains(Lower(t), Lower(tpl.trigger_patterns[i]))

\* f"auto-{datetime.now().strftime('%Y%m%d-%H%M%S')}"
TemplateName(at) == <<"auto", at>>

\* the template _save_template writes
NewTemplate(t, d, at) ==
    [name |-> TemplateName(at),
     description |-> Take(t, DescriptionLen),
     trigger_patterns |-> <<Take(t, TriggerLen)>>,
     dag |-> d,
     created_at |-> at]

Init ==
    /\ catalog \in OrchCatalogs
    /\ MatchIdle
    /\ OrchIdle

\* time passes
\* time passes; the clock is read by run (started_at) and by _save_template,
\* so it is enough to let it advance right before these
Tick ==
    /\ now < MaxClock
    /\ pc \in {"idle", "save_template"}
    /\ now' = now + 1
    /\ UNCHANGED <<catalog, mvars, runs, mode, task, context, dag, skills, node, idx,
                   template, pc, executed, scorer_calls, ranked, saved, ctx_file, log_file,
                   templates>>

\* Orchestrator(mode).run(task): the constructor and the new context, for a
\* mode among modes and at most max invocations
RunAs(modes, max) ==
    /\ pc = "idle"
    /\ runs < max
    /\ \E m \in modes, t \in OrchTasks :
        /\ mode' = UpperMode(m)
        /\ task' = t
        /\ context' = NewContext(t, UpperMode(m), now)
    /\ runs' = runs + 1
    /\ dag' = <<>>
    /\ skills' = <<>>
    /\ node' = None
    /\ idx' = 0
    /\ template' = None
    /\ executed' = <<>>
    /\ scorer_calls' = 0
    /\ ranked' = <<>>
    /\ saved' = <<>>
    /\ pc' = "save_initial"
    /\ UNCHANGED <<catalog, mvars, now, ctx_file, log_file, templates>>

Run == RunAs(ModeArgs, MaxRuns)

\* run going on to the start line without saving the new context
SaveInitialContextSkipped ==
    /\ pc = "save_initial"
    /\ pc' = "log_start"
    /\ UNCHANGED <<catalog, mvars, now, runs, mode, task, context, dag, skills, node,
                   idx, template, executed, scorer_calls, ranked, saved, ctx_file, log_file,
                   templates>>

\* run: self._save_context()
SaveInitialContext ==
    /\ pc = "save_initial"
    /\ ctx_file' = context
    /\ pc' = "log_start"
    /\ UNCHANGED <<catalog, mvars, now, runs, mode, task, context, dag, skills, node,
                   idx, template, executed, scorer_calls, ranked, saved, log_file, templates>>

\* run: self._log_execution(f"Started orchestration: {task[:50]}")
LogStart ==
    /\ pc = "log_start"
    /\ log_file' = Append(log_file, LogLine(<<"Started orchestration", Take(task, TriggerLen)>>))
    /\ pc' = "dispatch"
    /\ UNCHANGED <<catalog, mvars, now, runs, mode, task, context, dag, skills, node,
                   idx, template, executed, scorer_calls, ranked, saved, ctx_file, templates>>

\* run: the else branch, which returns without the completion line
UnknownMode ==
    /\ pc = "dispatch"
    /\ mode \notin {"QUICK", "STANDARD", "DEEP", "EXPERT"}
    /\ pc' = "idle"
    /\ UNCHANGED <<catalog, mvars, now, runs, mode, task, context, dag, skills, node,
                   idx, template, executed, scorer_calls, ranked, saved, ctx_file, log_file,
                   templates>>

\* run_quick up to the DAGNode it builds
QuickMatch ==
    /\ pc = "dispatch"
    /\ mode = "QUICK"
    /\ \E ai_results \in OrchAiResults :
        /\ catalog = <<>> => ai_results = <<>>
        /\ ranked' = match_skills(task, TRUE, catalog, ai_results)
    /\ skills' = ranked'
    /\ scorer_calls' = scorer_calls + 1
    /\ IF skills' = <<>>
       THEN node' = node /\ pc' = "log_complete"
       ELSE node' = DAGNode(NodeId(0), skills'[1].name, <<>>) /\ pc' = "quick_execute"
    /\ UNCHANGED <<catalog, mvars, now, runs, mode, task, context, dag, idx, template,
                   executed, saved, ctx_file, log_file, templates>>

\* run_quick: self.execute_skill(node, self.context)
QuickExecute ==
    /\ pc = "quick_execute"
    /\ log_file' = Append(log_file, LogLine(<<"Executing skill", node.skill>>))
    /\ node' = ExecutedNode(node)
    /\ context' = ExecutedContext(node, context)
    /\ ctx_file' = context'
    /\ executed' = Append(executed, node.id)
    /\ pc' = "log_complete"
    /\ UNCHANGED <<catalog, mvars, now, runs, mode, task, dag, skills, idx, template,
                   scorer_calls, ranked, saved, templates>>

\* run_standard slicing like run_deep, [:5]
StandardMatchDeep ==
    /\ pc = "dispatch"
    /\ mode = "STANDARD"
    /\ \E ai_results \in OrchAiResults :
        /\ catalog = <<>> => ai_results = <<>>
        /\ ranked' = match_skills(task, TRUE, catalog, ai_results)
    /\ skills' = Take(ranked', DeepCount)
    /\ scorer_calls' = scorer_calls + 1
    /\ pc' = IF skills' = <<>> THEN "log_complete" ELSE "compose"
    /\ UNCHANGED <<catalog, mvars, now, runs, mode, task, context, dag, node, idx,
                   template, executed, saved, ctx_file, log_file, templates>>

\* run_standard: match_skills(task, use_ai=True)[:3]
StandardMatch ==
    /\ pc = "dispatch"
    /\ mode = "STANDARD"
    /\ \E ai_results \in OrchAiResults :
        /\ catalog = <<>> => ai_results = <<>>
        /\ ranked' = match_skills(task, TRUE, catalog, ai_results)
    /\ skills' = Take(ranked', StandardCount)
    /\ scorer_calls' = scorer_calls + 1
    /\ pc' = IF skills' = <<>> THEN "log_complete" ELSE "compose"
    /\ UNCHANGED <<catalog, mvars, now, runs, mode, task, context, dag, node, idx,
                   template, executed, saved, ctx_file, log_file, templates>>

\* run_deep without its "if not skills: return": an empty plan is composed,
\* the loop has no turn to make and the template is saved
DeepMatchNoGuard ==
    /\ \/ pc = "dispatch" /\ mode = "DEEP"
       \/ pc = "run_deep"
    /\ \E ai_results \in OrchAiResults :
        /\ catalog = <<>> => ai_results = <<>>
        /\ ranked' = match_skills(task, TRUE, catalog, ai_results)
    /\ skills' = Take(ranked', DeepCount)
    /\ scorer_calls' = scorer_calls + 1
    /\ pc' = IF skills' = <<>> THEN "save_template" ELSE "compose"
    /\ UNCHANGED <<catalog, mvars, now, runs, mode, task, context, dag, node, idx,
                   template, executed, saved, ctx_file, log_file, templates>>

\* run_deep: match_skills(task, use_ai=True)[:5]
DeepMatch ==
    /\ \/ pc = "dispatch" /\ mode = "DEEP"
       \/ pc = "run_deep"
    /\ \E ai_results \in OrchAiResults :
        /\ catalog = <<>> => ai_results = <<>>
        /\ ranked' = match_skills(task, TRUE, catalog, ai_results)
    /\ skills' = Take(ranked', DeepCount)
    /\ scorer_calls' = scorer_calls + 1
    /\ pc' = IF skills' = <<>> THEN "log_complete" ELSE "compose"
    /\ UNCHANGED <<catalog, mvars, now, runs, mode, task, context, dag, node, idx,
                   template, executed, saved, ctx_file, log_file, templates>>

\* run_standard, run_deep: self.dag = self.compose_dag(skills) and total_steps
Compose ==
    /\ pc = "compose"
    /\ dag' = compose_dag(skills)
    /\ context' = [context EXCEPT !.total_steps = Len(dag')]
    /\ idx' = 1
    /\ pc' = "execute"
    /\ UNCHANGED <<catalog, mvars, now, runs, mode, task, skills, node, template,
                   executed, scorer_calls, ranked, saved, ctx_file, log_file, templates>>

\* the loop of run_standard followed, like the loop of run_deep, by
\* _save_template
ExecuteNodeAlwaysSaves ==
    /\ pc = "execute"
    /\ idx <= Len(dag)
    /\ log_file' = Append(log_file, LogLine(<<"Executing skill", dag[idx].skill>>))
    /\ dag' = [dag EXCEPT ![idx] = ExecutedNode(dag[idx])]
    /\ context' = ExecutedContext(dag[idx], context)
    /\ ctx_file' = context'
    /\ executed' = Append(executed, dag[idx].id)
    /\ idx' = idx + 1
    /\ pc' = IF idx < Len(dag) THEN "execute" ELSE "save_template"
    /\ UNCHANGED <<catalog, mvars, now, runs, mode, task, skills, node, template,
                   scorer_calls, ranked, saved, templates>>

\* one turn of "for node in self.dag: self.execute_skill(node, self.context)"
ExecuteNode ==
    /\ pc = "execute"
    /\ idx <= Len(dag)
    /\ log_file' = Append(log_file, LogLine(<<"Executing skill", dag[idx].skill>>))
    /\ dag' = [dag EXCEPT ![idx] = ExecutedNode(dag[idx])]
    /\ context' = ExecutedContext(dag[idx], context)
    /\ ctx_file' = context'
    /\ executed' = Append(executed, dag[idx].id)
    /\ idx' = idx + 1
    /\ pc' = IF idx < Len(dag) THEN "execute"
             ELSE IF mode = "STANDARD" THEN "log_complete" ELSE "save_template"
    /\ UNCHANGED <<catalog, mvars, now, runs, mode, task, skills, node, template,
                   scorer_calls, ranked, saved, templates>>

\* run_deep: self._save_template(task)
SaveTemplate ==
    /\ pc = "save_template"
    /\ templates' = Put(templates, TemplateName(now), NewTemplate(task, dag, now))
    /\ saved' = Append(saved, TemplateName(now))
    /\ log_file' = Append(log_file, LogLine(<<"Saved template", TemplateName(now)>>))
    /\ pc' = "log_complete"
    /\ UNCHANGED <<catalog, mvars, now, runs, mode, task, context, dag, skills, node,
                   idx, template, executed, scorer_calls, ranked, ctx_file>>

\* run_expert noting the miss among the errors of the context
ExpertFindMissIsError ==
    /\ pc = "dispatch"
    /\ mode = "EXPERT"
    /\ LET matching == {f \in DOMAIN templates : TemplateMatches(templates[f], task)}
       IN IF matching # {}
          THEN /\ \E f \in matching : template' = templates[f]
               /\ pc' = "execute_template"
               /\ context' = context
          ELSE /\ template' = None
               /\ pc' = "run_deep"
               /\ context' = [context EXCEPT !.errors = Append(@, "no template")]
    /\ UNCHANGED <<catalog, mvars, now, runs, mode, task, dag, skills, node,
                   idx, executed, scorer_calls, ranked, saved, ctx_file, log_file, templates>>

\* run_expert: template = self._find_template(task); the directory is listed in
\* an order the program does not choose, so any matching file may come first
ExpertFind ==
    /\ pc = "dispatch"
    /\ mode = "EXPERT"
    /\ LET matching == {f \in DOMAIN templates : TemplateMatches(templates[f], task)}
       IN IF matching # {}
          THEN /\ \E f \in matching : template' = templates[f]
               /\ pc' = "execute_template"
          ELSE /\ template' = None
               /\ pc' = "run_deep"
    /\ UNCHANGED <<catalog, mvars, now, runs, mode, task, context, dag, skills, node,
                   idx, executed, scorer_calls, ranked, saved, ctx_file, log_file, templates>>

\* run_expert: self._execute_template(template), which writes its log line
ExecuteTemplate ==
    /\ pc = "execute_template"
    /\ log_file' = Append(log_file, LogLine(<<"Executed template", template.name>>))
    /\ pc' = "log_complete"
    /\ UNCHANGED <<catalog, mvars, now, runs, mode, task, context, dag, skills, node,
                   idx, template, executed, scorer_calls, ranked, saved, ctx_file, templates>>

\* run: self._log_execution(f"Completed orchestration")
LogComplete ==
    /\ pc = "log_complete"
    /\ log_file' = Append(log_file, LogLine(<<"Completed orchestration">>))
    /\ pc' = "idle"
    /\ UNCHANGED <<catalog, mvars, now, runs, mode, task, context, dag, skills, node,
                   idx, template, executed, scorer_calls, ranked, saved, ctx_file, templates>>

Next ==
    \/ Tick
    \/ Run
    \/ SaveInitialContext
    \/ LogStart
    \/ UnknownMode
    \/ QuickMatch
    \/ QuickExecute
    \/ StandardMatch
    \/ DeepMatch
    \/ Compose
    \/ ExecuteNode
    \/ SaveTemplate
    \/ ExpertFind
    \/ ExecuteTemplate
    \/ LogComplete

Spec == Init /\ [][Next]_vars

-----------------------------------------------------------------------------
(* Deep and expert runs over one catalog, one invocation more *)

InitRoundTrip ==
    /\ catalog = <<SkillReactDeploy>>
    /\ MatchIdle
    /\ OrchIdle

RoundTripRun == RunAs({"DEEP", "EXPERT"}, MaxRoundTripRuns)

NextRoundTrip ==
    \/ Tick
    \/ RoundTripRun
    \/ SaveInitialContext
    \/ LogStart
    \/ DeepMatch
    \/ Compose
    \/ ExecuteNode
    \/ SaveTemplate
    \/ ExpertFind
    \/ ExecuteTemplate
    \/ LogComplete

SpecRoundTrip == InitRoundTrip /\ [][NextRoundTrip]_vars

-----------------------------------------------------------------------------
(* Properties of the orchestrator, under Spec *)

\* run(task) has returned
Returned == pc = "idle" /\ context # None

\* C1: when run(task) returns after executing a plan of N nodes, the context
\* has current_step = N = total_steps and outputs holds exactly the N
\* entries keyed by the executed nodes' ids.
C1_PlanCountsAgree ==
    (Returned /\ executed # <<>>) =>
        /\ context.current_step = Len(executed)
        /\ context.total_steps = Len(executed)
        /\ DOMAIN context.outputs = Range(executed)
        /\ Cardinality(Range(executed)) = Len(executed)

\* C2: current_step never exceeds total_steps, and within a run it never
\* decreases from one state to the next.
C2_StepWithinTotal ==
    [][/\ context' # None => context'.current_step <= context'.total_steps
       /\ (pc # "idle" /\ context # None) =>
            context'.current_step >= context.current_step]_vars

\* a trigger pattern of tpl occurs in t, compared without regard to case
C3_PatternInTask(tpl, t) ==
    \E i \in DOMAIN tpl.trigger_patterns :
        LET p == Lower(tpl.trigger_patterns[i])
        IN \E k \in 0..(Len(t) - Len(p)) : SubSeq(Lower(t), k + 1, k + Len(p)) = p

\* C3: an EXPERT run that finds a stored template with a trigger pattern
\* contained in the task (case-insensitively) uses such a template, never
\* calls match_skills and saves no template.
C3_TemplateHitSkipsScorer ==
    (/\ mode = "EXPERT"
     /\ pc \notin {"save_initial", "log_start", "dispatch"}
     /\ \E f \in DOMAIN templates \ Range(saved) : C3_PatternInTask(templates[f], task))
    => /\ scorer_calls = 0
       /\ saved = <<>>
       /\ template # None
       /\ C3_PatternInTask(template, task)
       /\ pc \in {"execute_template", "log_complete", "idle"}

\* an EXPERT run used a stored template and returned
C3_Witness ==
    /\ mode = "EXPERT"
    /\ Returned
    /\ template # None
    /\ template.trigger_patterns[1] # task
    /\ scorer_calls = 0

\* C4: an EXPERT run that found a template has, when it returns, executed
\* every node of the stored plan: outputs holds one entry per stored node and
\* current_step is the number of stored nodes.
C4_TemplatePlanExecuted ==
    (mode = "EXPERT" /\ Returned /\ template # None) =>
        /\ context.current_step = Len(template.dag)
        /\ DOMAIN context.outputs = {template.dag[i].id : i \in DOMAIN template.dag}

\* C8: compose_dag gives one node per skill, in order, with the ids n0, n1,
\* ...; the first node depends on nothing and every other node on exactly
\* the node before it.
C8_DagIsChain ==
    dag # <<>> =>
        /\ Len(dag) = Len(skills)
        /\ \A k \in DOMAIN dag :
            /\ dag[k].id = NodeIdText[k]
            /\ dag[k].skill = skills[k].name
            /\ dag[k].depends = IF k = 1 THEN <<>> ELSE <<dag[k - 1].id>>
            /\ \A j \in DOMAIN dag : j # k => dag[j].id # dag[k].id
            /\ \A d \in Range(dag[k].depends) : \E j \in 1..(k - 1) : dag[j].id = d

\* a plan of five nodes was composed
C8_Witness == Len(dag) = DeepCount /\ pc = "execute"

\* the lines of the log file whose message starts with head
LogCount(head) ==
    Cardinality({i \in DOMAIN log_file : log_file[i].message[1] = head})

\* C11: with an empty catalog the scorer returns the empty list, and a run
\* in QUICK, STANDARD, DEEP or EXPERT mode returns having executed no step
\* and saved no template; the stored context has total_steps = 0,
\* current_step = 0 and no outputs, and the log holds the run's start and
\* completion lines.
C11_EmptyCatalogRun ==
    (/\ catalog = <<>>
     /\ Returned
     /\ mode \in {"QUICK", "STANDARD", "DEEP", "EXPERT"})
    => /\ scorer_calls = 1
       /\ skills = <<>>
       /\ dag = <<>>
       /\ executed = <<>>
       /\ saved = <<>>
       /\ templates = <<>>
       /\ ctx_file # None
       /\ ctx_file.task = task /\ ctx_file.mode = mode
       /\ ctx_file.total_steps = 0
       /\ ctx_file.current_step = 0
       /\ ctx_file.outputs = <<>>
       /\ Len(log_file) >= 2
       /\ log_file[Len(log_file) - 1] =
            [mode |-> mode,
             message |-> <<"Started orchestration", Take(task, TriggerLen)>>]
       /\ log_file[Len(log_file)] =
            [mode |-> mode, message |-> <<"Completed orchestration">>]
       /\ LogCount("Executing skill") = 0

\* an EXPERT run over the empty catalog fell back to the deep run and returned
C11_Witness ==
    /\ catalog = <<>>
    /\ Returned
    /\ mode = "EXPERT"
    /\ scorer_calls = 1
    /\ LogCount("Completed orchestration") = 2

\* this run is a DEEP run, or an EXPERT run that found no template
C13_DeepPath == mode = "DEEP" \/ (mode = "EXPERT" /\ template = None)

\* C13: a template file is written only by a DEEP run (or EXPERT falling
\* back to it) whose plan is not empty, after every node of the plan was
\* executed, and the file holds the nodes of the plan in plan order; every
\* such run writes one before it returns; QUICK and STANDARD write none.
C13_TemplateAfterPlan ==
    [][/\ (templates' # templates \/ Len(saved') > Len(saved)) =>
            /\ C13_DeepPath
            /\ dag # <<>>
            /\ \A k \in DOMAIN dag :
                /\ dag[k].completed
                /\ dag[k].id \in DOMAIN context.outputs
            /\ executed = [k \in DOMAIN dag |-> dag[k].id]
            /\ Len(saved') = 1
            /\ saved'[1] \in DOMAIN templates'
            /\ templates'[saved'[1]].dag = dag
            /\ \A f \in DOMAIN templates' \ {saved'[1]} :
                f \in DOMAIN templates /\ templates'[f] = templates[f]
       /\ (pc # "idle" /\ pc' = "idle" /\ C13_DeepPath /\ dag # <<>>) =>
            Len(saved) = 1
       /\ mode \in {"QUICK", "STANDARD"} => saved' = <<>>]_vars

\* an EXPERT run found no template, ran the deep plan of five nodes and
\* wrote its template
C13_Witness ==
    /\ Returned
    /\ mode = "EXPERT"
    /\ template = None
    /\ Len(dag) = DeepCount
    /\ saved # <<>>
    /\ saved[1] \in DOMAIN templates

\* C14: every template is written under a name no other template has: a
\* step that saves a template adds exactly one file and leaves every file
\* that was there as it was, also when two DEEP runs end in the same second.
C14_TemplateNamesUnique ==
    [][/\ \A f \in DOMAIN templates :
            f \in DOMAIN templates' /\ templates'[f] = templates[f]
       /\ Len(saved') > Len(saved) =>
            /\ saved'[Len(saved')] \notin DOMAIN templates
            /\ Cardinality(DOMAIN templates') = Cardinality(DOMAIN templates) + 1]_vars

\* C17: in the stored context, current_step is the number of entries of
\* outputs, at every moment.
C17_StoredStepCountsOutputs ==
    ctx_file # None =>
        ctx_file.current_step = Cardinality(DOMAIN ctx_file.outputs)

\* the stored context holds the five outputs of a deep plan
C17_Witness ==
    /\ ctx_file # None
    /\ ctx_file.current_step = DeepCount
    /\ DOMAIN ctx_file.outputs = {NodeId(k) : k \in 0..(DeepCount - 1)}

\* C18: the context is stored after every change of it, the setting of
\* total_steps included, before the run does anything else: between the
\* steps of a run the stored context and the one in memory are equal.
C18_StoredAfterEveryChange ==
    (context # None /\ pc # "save_initial") => ctx_file = context

\* the context is the fresh one of this run
C19_Fresh(c) ==
    /\ c # None
    /\ c.task = task /\ c.mode = mode
    /\ c.current_step = 0 /\ c.total_steps = 0
    /\ c.outputs = <<>> /\ c.errors = <<>>

\* C19: a run starts with a fresh context (no step, no total, no outputs, no
\* errors), which takes the place of the stored one; it is stored before the
\* start line is logged, and both happen before the scorer is called and
\* before any step is executed.
C19_FreshContextFirst ==
    /\ pc \in {"save_initial", "log_start", "dispatch"} =>
        /\ C19_Fresh(context)
        /\ scorer_calls = 0 /\ executed = <<>> /\ saved = <<>>
    /\ pc \in {"save_initial", "log_start"} =>
        LogCount("Started orchestration") = runs - 1
    /\ pc \in {"log_start", "dispatch"} =>
        /\ C19_Fresh(ctx_file)
        /\ ctx_file = context
    /\ pc \notin {"save_initial", "log_start"} =>
        LogCount("Started orchestration") = runs
    /\ pc = "dispatch" =>
        log_file[Len(log_file)] =
            [mode |-> mode,
             message |-> <<"Started orchestration", Take(task, TriggerLen)>>]
    /\ (scorer_calls > 0 \/ executed # <<>>) =>
        /\ pc \notin {"save_initial", "log_start", "dispatch"}
        /\ ctx_file # None
        /\ ctx_file.task = task /\ ctx_file.mode = mode

\* a second run has stored its fresh context over the one of a run that
\* executed steps, and has not logged its start yet
C19_Witness ==
    /\ runs = 2
    /\ pc = "log_start"
    /\ LogCount("Executing skill") > 0
    /\ ctx_file.current_step = 0
    /\ ctx_file.outputs = <<>>

\* node n of the plan is completed, with its output in the context in memory
\* and in the stored one
C20_Done(n) ==
    /\ n.completed
    /\ n.output # None
    /\ n.id \in DOMAIN context.outputs /\ context.outputs[n.id] = n.output
    /\ ctx_file # None
    /\ n.id \in DOMAIN ctx_file.outputs /\ ctx_file.outputs[n.id] = n.output

\* the plan of the run: the stored plan of the template an EXPERT run found,
\* the one node of a QUICK run, else the plan the run composed
C20_Plan ==
    IF template # None THEN template.dag
    ELSE IF node # None THEN <<node>>
    ELSE dag

C21_Nodes == IF mode = "QUICK" THEN (IF node # None THEN <<node>> ELSE <<>>) ELSE dag

\* C21: a QUICK run executes the top-ranked skill alone, a STANDARD run the
\* first 3 and a DEEP run the first 5 skills of the ranking, in its order;
\* fewer only when the catalog holds fewer.
C21_PlanSizeByMode ==
    (Returned /\ mode \in {"QUICK", "STANDARD", "DEEP"}) =>
        LET count == IF mode = "QUICK" THEN 1 ELSE IF mode = "STANDARD" THEN 3 ELSE 5
            n == IF Len(catalog) < count THEN Len(catalog) ELSE count
        IN /\ scorer_calls = 1
           /\ Len(ranked) = Len(catalog)
           /\ \A k \in 1..(Len(ranked) - 1) :
                RLe(FinalKey(ranked[k + 1]), FinalKey(ranked[k]))
           /\ Len(C21_Nodes) = n
           /\ Len(executed) = n
           /\ \A k \in 1..n :
                /\ C21_Nodes[k].skill = ranked[k].name
                /\ C21_Nodes[k].completed
                /\ executed[k] = C21_Nodes[k].id
                /\ LogCount("Executing skill") >= n

\* a STANDARD run over six skills, the ranker having moved a skill to the top
C21_Witness ==
    /\ Returned
    /\ mode = "STANDARD"
    /\ Len(catalog) > DeepCount
    /\ Len(executed) = StandardCount
    /\ "ai_score" \in DOMAIN ranked[1]
    /\ ranked[1].ai_score = One

\* the run is on the path of run_deep: a DEEP run, or an EXPERT run that
\* found no template
C22_OnDeepPath == mode = "DEEP" \/ (mode = "EXPERT" /\ template = None)

\* the scorer was called on the task of the run and its catalog, with the ranker
C22_SameScorerCall ==
    \E ai_results \in OrchAiResults :
        ranked = match_skills(task, TRUE, catalog, ai_results)

\* what a deep run on task and catalog leaves when it returns, whatever the
\* mode it was started in: one call of the scorer, the plan of the first
\* five skills of its ranking, every node executed, its outputs in the
\* context, no error, and the template of the plan
C22_DeepOutcome ==
    LET n == IF Len(ranked) < 5 THEN Len(ranked) ELSE 5
    IN /\ scorer_calls = 1
       /\ skills = SubSeq(ranked, 1, n)
       /\ dag = [k \in 1..n |->
                    [id |-> NodeIdText[k], skill |-> ranked[k].name,
                     depends |-> IF k = 1 THEN <<>> ELSE <<NodeIdText[k - 1]>>,
                     completed |-> TRUE, output |-> <<"executed", ranked[k].name>>]]
       /\ executed = [k \in 1..n |-> NodeIdText[k]]
       /\ context.task = task
       /\ context.current_step = n /\ context.total_steps = n
       /\ DOMAIN context.outputs = {NodeIdText[k] : k \in 1..n}
       /\ \A k \in 1..n : context.outputs[NodeIdText[k]] = dag[k].output
       /\ context.errors = <<>>
       /\ ctx_file = context
       /\ IF n = 0 THEN saved = <<>>
          ELSE /\ Len(saved) = 1
               /\ saved[1] \in DOMAIN templates
               /\ templates[saved[1]] =
                    [name |-> saved[1],
                     description |-> SubSeq(task, 1, Min2(Len(task), 100)),
                     trigger_patterns |-> <<SubSeq(task, 1, Min2(Len(task), 50))>>,
                     dag |-> dag,
                     created_at |-> saved[1][2]]

\* C22: an EXPERT run that finds no template whose trigger pattern is in the
\* task returns with what a DEEP run returns with on the same task and
\* catalog: the same call of the scorer, plan, executed steps, outputs and
\* saved template, and no error recorded for the miss.
C22_ExpertMissIsDeep ==
    /\ (pc = "log_complete" /\ C22_OnDeepPath) => C22_SameScorerCall
    /\ (Returned /\ C22_OnDeepPath) => C22_DeepOutcome
    /\ (Returned /\ mode = "EXPERT" /\ template = None) =>
        \A f \in DOMAIN templates \ Range(saved) :
            ~C3_PatternInTask(templates[f], task)

\* a second run, in EXPERT mode, found the stored template not to match its
\* task, ran the deep plan and saved its own template
C22_Witness ==
    /\ Returned
    /\ mode = "EXPERT"
    /\ template = None
    /\ Len(dag) = DeepCount
    /\ saved # <<>>
    /\ DOMAIN templates \ Range(saved) # {}

-----------------------------------------------------------------------------
(* Properties of the deep and expert runs, under SpecRoundTrip *)

\* line i of the log starts a DEEP run that went on to save a template, a
\* run that executed a plan that was not empty
C24_DeepRunAt(i) ==
    /\ log_file[i].mode = "DEEP"
    /\ log_file[i].message[1] = "Started orchestration"
    /\ \E j \in (i + 1)..Len(log_file) :
        /\ log_file[j].message[1] = "Saved template"
        /\ \A k \in (i + 1)..j : log_file[k].message[1] # "Started orchestration"

\* the first 50 characters of the tasks of these runs, as the start line holds them
C24_DeepPrefixes ==
    {log_file[i].message[2] : i \in {k \in DOMAIN log_file : C24_DeepRunAt(k)}}

\* C24: once a DEEP run on task T has executed a plan that was not empty, an
\* EXPERT run whose task contains the first 50 characters of T, whatever
\* the case, finds a template and does not call the scorer; and the
\* template an EXPERT run uses has a trigger pattern that its task
\* contains, whatever the case.
C24_RoundTrip ==
    (mode = "EXPERT" /\ pc \notin {"save_initial", "log_start", "dispatch"}) =>
        /\ (\E prefix \in C24_DeepPrefixes :
                C3_PatternInTask([trigger_patterns |-> <<prefix>>], task))
            => (template # None /\ scorer_calls = 0)
        /\ template # None => C3_PatternInTask(template, task)

-----------------------------------------------------------------------------
(* Properties of match_skills, under SpecMatch *)

Matched == m_pc = "done"

\* the outcomes of the external call that count as a failure: no library, no
\* key, an error of the client or of the call, a text that is not JSON, and
\* JSON that is not an array of entries with a name
C12_Failure(env) ==
    \/ env.kind # "response"
    \/ env.fence = "plain"
    \/ env.payload.type # "array"
    \/ env.payload.type = "array"
        /\ \E j \in DOMAIN env.payload.items : "name" \notin DOMAIN env.payload.items[j]

\* C12: whatever the external call does, semantic_match_gemini does not
\* raise, it returns the empty list on every failure, and match_skills
\* returns a ranking of the whole catalog.
C12_AdapterNeverRaises ==
    (m_pc \in {"done", "raised"} /\ m_ext # None) =>
        /\ m_pc = "done"
        /\ Len(m_result) = Len(catalog)
        /\ C12_Failure(m_ext) => m_ai = <<>>

\* C5: with no entries from the ranker, the final score (as the program reads
\* it, s.get('final_score', 0)) is keyword_score when use_ai is false and
\* 0.4 * keyword_score when use_ai is true.
C5_EmptyRankingScores ==
    (Matched /\ m_ai = <<>>) =>
        \A i \in DOMAIN m_result :
            FinalKey(m_result[i]) =
                IF m_use_ai THEN RMul(Rat(2, 5), m_result[i].keyword_score)
                ELSE m_result[i].keyword_score

\* the entries of the ranking that name skill s
C6_EntriesFor(s) == {j \in DOMAIN m_ai : m_ai[j].name = s.name}
C6_Fused(s, score) ==
    RAdd(RMul(Rat(2, 5), s.keyword_score), RMul(Rat(3, 5), score))

\* C6 as stated: with a non-empty ranking, every entry {name, score s} of a
\* skill's name gives final_score = 0.4 * keyword_score + 0.6 * s and its
\* reason; a skill without entry gets 0.4 * keyword_score.
C6_EveryEntryFuses ==
    (Matched /\ m_ai # <<>>) =>
        \A i \in DOMAIN m_result :
            LET s == m_result[i]
            IN /\ \A j \in C6_EntriesFor(s) :
                    "score" \in DOMAIN m_ai[j] =>
                        /\ s.final_score = C6_Fused(s, m_ai[j].score)
                        /\ s.reason = m_ai[j].reason
               /\ C6_EntriesFor(s) = {} =>
                    s.final_score = RMul(Rat(2, 5), s.keyword_score)

\* C6, amended: it is the last entry of the skill's name that counts (with
\* score 0 and an empty reason when that entry carries none).
C6_LastEntryFuses ==
    (Matched /\ m_ai # <<>>) =>
        \A i \in DOMAIN m_result :
            LET s == m_result[i]
                last == CHOOSE j \in C6_EntriesFor(s) : \A k \in C6_EntriesFor(s) : k <= j
            IN IF C6_EntriesFor(s) # {}
               THEN /\ s.final_score =
                          C6_Fused(s, IF "score" \in DOMAIN m_ai[last]
                                      THEN m_ai[last].score ELSE Zero)
                    /\ s.reason = IF "reason" \in DOMAIN m_ai[last]
                                  THEN m_ai[last].reason ELSE ""
               ELSE s.final_score = RMul(Rat(2, 5), s.keyword_score)

\* the ranking names a catalog skill twice, with different scores
C6_Witness ==
    /\ Matched
    /\ \E i \in DOMAIN m_result : \E j, k \in C6_EntriesFor(m_result[i]) :
        /\ j < k
        /\ "score" \in DOMAIN m_ai[j] /\ "score" \in DOMAIN m_ai[k]
        /\ m_ai[j].score # m_ai[k].score

\* where the skill named n stands in the catalog
C7_CatalogIndex(n) == CHOOSE i \in DOMAIN catalog : catalog[i].name = n

\* C7: the result holds every catalog skill once, by non-increasing final
\* score; skills of equal final score keep the order of the lexical sort,
\* which is by decreasing keyword score and then by catalog order.
C7_RankingStable ==
    Matched =>
        /\ Len(m_result) = Len(catalog)
        /\ \A c \in DOMAIN catalog :
            Cardinality({i \in DOMAIN m_result :
                \A key \in DOMAIN catalog[c] :
                    key \in DOMAIN m_result[i] /\ m_result[i][key] = catalog[c][key]}) = 1
        /\ \A i, j \in DOMAIN m_result :
            i < j =>
                /\ RLe(FinalKey(m_result[j]), FinalKey(m_result[i]))
                /\ FinalKey(m_result[i]) = FinalKey(m_result[j]) =>
                    \/ RLt(m_result[j].keyword_score, m_result[i].keyword_score)
                    \/ /\ m_result[i].keyword_score = m_result[j].keyword_score
                       /\ C7_CatalogIndex(m_result[i].name) < C7_CatalogIndex(m_result[j].name)

\* two skills tie on the final score, and the ranking moved another skill
C7_Witness ==
    /\ Matched
    /\ m_ai # <<>>
    /\ \E i, j \in DOMAIN m_result :
        /\ i < j
        /\ "final_score" \in DOMAIN m_result[i]
        /\ FinalKey(m_result[i]) = FinalKey(m_result[j])
        /\ m_result[i].keyword_score = m_result[j].keyword_score
    /\ \E i \in DOMAIN m_result : m_result[i].name # catalog[Len(catalog) + 1 - i].name

\* skill has neither a name nor keywords
C9_Bare(s) == Get(s, "name", <<>>) = <<>> /\ Get(s, "keywords", <<>>) = <<>>

\* C9: a skill with an empty name and no keywords scores exactly 0,
\* whatever its description.
C9_BareSkillScoresZero ==
    Matched =>
        \A i \in DOMAIN m_result : C9_Bare(m_result[i]) => m_result[i].keyword_score = Zero

\* a bare skill whose description holds a word of the task was scored
C9_Witness ==
    /\ Matched
    /\ \E i \in DOMAIN m_result :
        /\ C9_Bare(m_result[i])
        /\ \E w \in TaskWords(m_task) : Contains(Lower(m_result[i].description), w)

\* C10: keyword_match lies in [0, 1], and of its three parts the name
\* overlap is at most 0.40, the keyword overlap at most 0.35 and the
\* description containment at most 0.25.
C10_PartsBounded ==
    Matched =>
        \A i \in DOMAIN m_result :
            LET s == m_result[i]
            IN /\ RLe(Zero, s.keyword_score) /\ RLe(s.keyword_score, One)
               /\ RLe(NameScore(TaskWords(m_task), NameWords(s)), Rat(2, 5))
               /\ RLe(KeywordScore(TaskWords(m_task), Keywords(s)), Rat(7, 20))
               /\ RLe(DescScore(TaskWords(m_task), Description(s)), Rat(1, 4))

\* the catalog holds one skill, and the task tokens hold every word of its
\* name and every one of its keywords
C15_SoleSkillCovered ==
    /\ Len(catalog) = 1
    /\ NameWords(catalog[1]) \subseteq TaskWords(m_task)
    /\ Keywords(catalog[1]) \subseteq TaskWords(m_task)

\* the sole skill scores above 0.5 and, without the ranker, is the one result,
\* its final score being its keyword score
C15_ScoresHigh ==
    /\ Len(m_result) = 1
    /\ m_result[1].name = catalog[1].name
    /\ RLt(Rat(1, 2), m_result[1].keyword_score)
    /\ ~m_use_ai =>
        /\ "final_score" \in DOMAIN m_result[1]
        /\ m_result[1].final_score = m_result[1].keyword_score

\* C15 as stated: for a single-skill catalog whose skill has every name word
\* and every keyword among the task tokens, keyword_match is above 0.5 and,
\* with use_ai false, match_skills returns that skill alone with final_score
\* equal to the keyword score.
C15_CoveredSkillScoresHigh ==
    (Matched /\ C15_SoleSkillCovered) => C15_ScoresHigh

\* C15, amended: the same, for a skill that has at least one name word and
\* at least one keyword.
C15_NamedCoveredSkillScoresHigh ==
    (/\ Matched
     /\ C15_SoleSkillCovered
     /\ NameWords(catalog[1]) # {}
     /\ Keywords(catalog[1]) # {})
    => C15_ScoresHigh

\* react-deploy alone in the catalog, "build and deploy a react app", no ranker
C15_Witness ==
    /\ Matched
    /\ catalog = <<SkillReactDeploy>>
    /\ m_task = TaskReact
    /\ ~m_use_ai
    /\ m_result[1].final_score = One

\* the three overlaps of the task tokens with skill s: with the words of its
\* name, with its keywords, and the tokens its description contains
C16_NameOverlap(s) == TaskWords(m_task) \cap NameWords(s)
C16_KeywordOverlap(s) == TaskWords(m_task) \cap Keywords(s)
C16_DescOverlap(s) == {w \in TaskWords(m_task) : Contains(Description(s), w)}
C16_NoOverlap(s) ==
    C16_NameOverlap(s) = {} /\ C16_KeywordOverlap(s) = {} /\ C16_DescOverlap(s) = {}

\* C16: keyword_match is 0 when the task tokens share no word with the
\* skill's name, none with its keywords and none occurs in its description;
\* and it is above 0 as soon as one of these overlaps is not empty, for a
\* skill that has a name or a keyword.
C16_ZeroIffNoOverlap ==
    Matched =>
        \A i \in DOMAIN m_result :
            LET s == m_result[i]
            IN /\ C16_NoOverlap(s) => s.keyword_score = Zero
               /\ (~C9_Bare(s) /\ ~C16_NoOverlap(s)) => RLt(Zero, s.keyword_score)

\* one skill scored above 0 on its description alone, one on its name alone
\* without having keywords, and one with a name and keywords scored 0
C16_Witness ==
    /\ Matched
    /\ \E i, j, k \in DOMAIN m_result :
        /\ ~C9_Bare(m_result[i])
        /\ C16_NameOverlap(m_result[i]) = {} /\ C16_KeywordOverlap(m_result[i]) = {}
        /\ C16_DescOverlap(m_result[i]) # {}
        /\ Keywords(m_result[j]) = {} /\ C16_NameOverlap(m_result[j]) # {}
        /\ ~C9_Bare(m_result[k]) /\ C16_NoOverlap(m_result[k])
        /\ Keywords(m_result[k]) # {}

\* C23: every skill match_skills returns has a final score, and it lies in
\* [0, 1], whether the ranker was not asked, gave nothing or gave a
\* ranking, and whatever the scores of that ranking.
C23_FinalScoreInUnit ==
    Matched =>
        \A i \in DOMAIN m_result :
            /\ "final_score" \in DOMAIN m_result[i]
            /\ RLe(Zero, m_result[i].final_score)
            /\ RLe(m_result[i].final_score, One)


\* match_skills has got past the check of the empty index
C25_Scoring == m_pc \in {"sorted", "done", "raised"}

\* C25: a matching run leaves the records of the catalog as they were: each
\* keeps its name, description and keywords, and none has a field it
\* did not have before, the scores being held elsewhere.
C25_CatalogRecordsUnchanged ==
    C25_Scoring =>
        /\ Len(m_index) = Len(catalog)
        /\ \A i \in DOMAIN catalog :
            /\ DOMAIN m_index[i] = DOMAIN catalog[i]
            /\ \A field \in DOMAIN catalog[i] : m_index[i][field] = catalog[i][field]

====
